---- MODULE Spec2Model ----
(***************************************************************************)
(* Model of the cursor pagination engine of n8n-nodes-resend               *)
(* (nodes/Resend/GenericFunctions.ts): requestList, and the loader of      *)
(* dropdown options, paginatedLoadOptions.                                 *)
(*                                                                         *)
(* One invocation of requestList is a small state machine.  JavaScript     *)
(* runs the code between two `await`s without interruption, so an action   *)
(* is one such segment: Call runs from the entry of the function to the    *)
(* first `await requestPage()`, a Respond action runs from the arrival of  *)
(* a response to the next `await` (or to the return), and TransportFail    *)
(* is the rejection of the pending httpRequest promise.                    *)
(*                                                                         *)
(* Optional JavaScript values (a field that may be absent / undefined)     *)
(* are encoded as sequences: None is "absent", Some(v) is "present, v".    *)
(***************************************************************************)
EXTENDS Integers, Sequences, FiniteSets, TLC

None == << >>
Some(v) == << v >>

\* JavaScript truthiness of an optional string: present and not "".
Truthy(o) == o # None /\ o[1] # ""

(***************************************************************************)
(* Bounds of the model and program constants.                              *)
(***************************************************************************)
\* Longest ordinary page the modelled upstream returns.
MaxPageLen == 2
\* Number of calls the modelled upstream answers freely; afterwards it
\* either reports the end of the collection or keeps repeating itself.
MaxVaried == 2
\* Largest caller-supplied limit.
MaxLimit == 2

maxPages == 100
AggregatePageSize == 100
DefaultPageSize == 50

(***************************************************************************)
(* Inputs.                                                                 *)
(***************************************************************************)
\* Items are opaque objects; the engine only looks at `id`.
ItemA == [id |-> Some("a")]
ItemB == [id |-> Some("b")]
ItemEmptyId == [id |-> Some("")]
ItemNoId == [id |-> None]
IdItems == {ItemA, ItemB}
NoIdItems == {ItemNoId, ItemEmptyId}

SeqsUpTo(S, n) == UNION {[1..k -> S] : k \in 0..n}

\* Ordinary pages: any sequence of items with ids, and the pages whose last
\* item has a missing or an empty id.
Pages ==
    SeqsUpTo(IdItems, MaxPageLen)
        \cup {Append(p, n) : p \in SeqsUpTo(IdItems, MaxPageLen - 1), n \in NoIdItems}

\* A page the upstream sends although fewer items were asked for: one item
\* more than the default page size.
OverReturnPage ==
    [i \in 1..(DefaultPageSize + 1) |-> IF i % 2 = 1 THEN ItemA ELSE ItemB]

\* The `data` field of a response: an array, or something that is no array.
DataValues == {Some(p) : p \in Pages} \cup {None}

\* The `object` field of a response: the upstream sends "list"; a response
\* may also come without the field or with another value.
ListObject == Some("list")
OtherObjects == {None, Some("email")}

\* Last pages whose `object` field is not "list".
OddObjectResponses ==
    {[object |-> o, data |-> Some(<< ItemA >>), has_more |-> FALSE] : o \in OtherObjects}

Responses ==
    [object : {ListObject}, data : DataValues, has_more : BOOLEAN]
        \cup {[object |-> ListObject, data |-> Some(OverReturnPage), has_more |-> FALSE]}
        \cup OddObjectResponses

\* How a collection ends: an empty page or a last short page, has_more false.
EndResponses ==
    {[object |-> ListObject, data |-> Some(<< >>), has_more |-> FALSE],
     [object |-> ListObject, data |-> Some(<< ItemB >>), has_more |-> FALSE]}

\* What a runaway upstream repeats for ever: a one-item page, has_more true.
RunawayResponses ==
    {[object |-> ListObject, data |-> Some(<< i >>), has_more |-> TRUE] : i \in IdItems}

\* The caller's "After"/"Before" fields: left empty, or a cursor.
CursorInputs == {Some(""), Some("x")}
ListOptionsInputs == [after : CursorInputs, before : CursorInputs]
LimitInputs == {None} \cup {Some(n) : n \in (-1)..MaxLimit}
ItemIndexInputs == {0, 1}

VARIABLES
    pc,             \* "idle", "awaiting", "returned", "threw"
    listOptions,    \* argument listOptions
    returnAll,      \* argument returnAll
    limit,          \* argument limit (optional)
    itemIndex,      \* argument itemIndex of a refused call
    qs,             \* the query object handed to httpRequest
    allItems,       \* local allItems
    lastResponse,   \* local lastResponse (optional)
    hasMore,        \* local hasMore
    pageCount,      \* local pageCount
    paginationMode, \* local paginationMode: "after", "before", "undefined"
    result,         \* the value requestList returned (optional)
    error,          \* the error requestList threw (optional)
    requests,       \* history: the query of every transport call issued
    responses,      \* history: every response the transport delivered
    after,          \* paginatedLoadOptions: local after (optional)
    returnData,     \* paginatedLoadOptions: local returnData
    suspended       \* the locals of a second requestList invocation that
                    \* waits at an `await` while this one runs

vars == << pc, listOptions, returnAll, limit, itemIndex, qs, allItems,
           lastResponse, hasMore, pageCount, paginationMode, result, error,
           requests, responses, after, returnData, suspended >>

(***************************************************************************)
(* requestList, lines 203-302.                                             *)
(***************************************************************************)
\* a requestList that does not validate its cursors
BothCursors_NotChecked(lo) == FALSE

\* line 212: both cursors given
BothCursors(lo) == Truthy(lo.after) /\ Truthy(lo.before)

\* lines 213-217
InvalidArgument(idx) ==
    [type |-> "NodeOperationError",
     message |-> "You can only use either \"After\" or \"Before\", not both.",
     itemIndex |-> Some(idx)]

\* what a rejected httpRequest promise carries; requestList has no catch
TransportError ==
    [type |-> "TransportError", message |-> "request failed", itemIndex |-> None]

\* a page size that prefers the caller's limit: limit ?? (returnAll ? 100 : 50)
PageSize_LimitFirst(shouldReturnAll, lim) ==
    IF lim # None THEN lim[1]
    ELSE IF shouldReturnAll THEN AggregatePageSize ELSE DefaultPageSize

\* line 222: limit ?? 50
PageSize(shouldReturnAll, lim) ==
    IF shouldReturnAll THEN AggregatePageSize
    ELSE IF lim = None THEN DefaultPageSize ELSE lim[1]

\* lines 221-232
InitialQs(lo, pageSize) ==
    [limit |-> Some(pageSize),
     after |-> IF Truthy(lo.after) THEN lo.after ELSE None,
     before |-> IF Truthy(lo.before) THEN lo.before ELSE None]

IsArray(d) == d # None

\* a truncation that keeps the end of the page: slice(-limit)
SinglePageResult_KeepsTail(r, lim) ==
    IF lim # None /\ lim[1] > 0 /\ IsArray(r.data) /\ Len(r.data[1]) > lim[1]
    THEN [r EXCEPT !.data =
            Some(SubSeq(r.data[1], Len(r.data[1]) - lim[1] + 1, Len(r.data[1])))]
    ELSE r

\* lines 247-257: client-side truncation of a single page
SinglePageResult(r, lim) ==
    IF lim # None /\ lim[1] > 0 /\ IsArray(r.data) /\ Len(r.data[1]) > lim[1]
    THEN [r EXCEPT !.data = Some(SubSeq(r.data[1], 1, lim[1]))]
    ELSE r

\* lines 269-271
ResponseData(r) == IF IsArray(r.data) THEN r.data[1] ELSE << >>

\* a bound that is checked one page late: pageCount > maxPages
StopAfterPage_OffByOne(more, responseData, count) ==
    ~more \/ Len(responseData) = 0 \/ count > maxPages

\* line 276
StopAfterPage(more, responseData, count) ==
    ~more \/ Len(responseData) = 0 \/ count >= maxPages

\* an accumulation that puts the new page first: allItems.unshift(...)
Accumulate_Prepends(items, responseData) == responseData \o items

\* line 272: allItems.push(...responseData)
Accumulate(items, responseData) == items \o responseData

\* a cursor taken from the first item of the page: responseData[0]?.id
LastItemId_First(responseData) ==
    IF Len(responseData) = 0 THEN None ELSE responseData[1].id

\* lines 280-281: lastItem?.id, undefined when the page is empty
LastItemId(responseData) ==
    IF Len(responseData) = 0 THEN None ELSE responseData[Len(responseData)].id

\* a walk that does not test the id of the last item
LastItemLacksId_NotTested(responseData) == FALSE

\* line 281
LastItemLacksId(responseData) == ~Truthy(LastItemId(responseData))

\* a cursor update that ignores the direction and clears nothing
NextQs_AlwaysAfter(q, mode, id) == [q EXCEPT !.after = id]

\* lines 285-292
NextQs(q, mode, id) ==
    IF mode = "before"
    THEN [q EXCEPT !.before = id, !.after = None]
    ELSE [q EXCEPT !.after = id, !.before = None]

NextMode(mode) == IF mode = "before" THEN "before" ELSE "after"

\* a result that keeps the upstream's has_more (line 297 missing)
AggregateResult_KeepsHasMore(last, items) ==
    IF last # None /\ IsArray(last[1].data)
    THEN [last[1] EXCEPT !.data = Some(items)]
    ELSE [object |-> Some("list"), data |-> Some(items), has_more |-> FALSE]

\* a result that keeps the last page's data (line 296 missing)
AggregateResult_LastPageOnly(last, items) ==
    IF last # None /\ IsArray(last[1].data)
    THEN [last[1] EXCEPT !.has_more = FALSE]
    ELSE [object |-> Some("list"), data |-> Some(items), has_more |-> FALSE]

\* lines 295-301
AggregateResult(last, items) ==
    IF last # None /\ IsArray(last[1].data)
    THEN [last[1] EXCEPT !.data = Some(items), !.has_more = FALSE]
    ELSE [object |-> Some("list"), data |-> Some(items), has_more |-> FALSE]

(***************************************************************************)
(* The upstream.  It answers the first MaxVaried calls of an invocation    *)
(* with any response; afterwards it either ends the collection or, when    *)
(* it is a runaway upstream, repeats the response it has always given.     *)
(***************************************************************************)
AllAlike(rs) == \A i \in 1..Len(rs) : rs[i] = rs[1]

UpstreamMay(r) ==
    \/ Len(responses) < MaxVaried
    \/ r \in EndResponses
    \/ /\ r \in RunawayResponses
       /\ Len(responses) > 0
       /\ AllAlike(responses)
       /\ r = responses[1]

\* The arguments and locals of the running requestList invocation, with the
\* histories of its transport calls: the function declares all of them in
\* its own body (lines 203-211, 220-222, 260-265).
Locals ==
    [pc |-> pc, listOptions |-> listOptions, returnAll |-> returnAll,
     limit |-> limit, itemIndex |-> itemIndex, qs |-> qs, allItems |-> allItems,
     lastResponse |-> lastResponse, hasMore |-> hasMore, pageCount |-> pageCount,
     paginationMode |-> paginationMode, result |-> result, error |-> error,
     requests |-> requests, responses |-> responses]

Init ==
    /\ pc = "idle"
    /\ listOptions = [after |-> Some(""), before |-> Some("")]
    /\ returnAll = FALSE
    /\ limit = None
    /\ itemIndex = 0
    /\ qs = [limit |-> None, after |-> None, before |-> None]
    /\ allItems = << >>
    /\ lastResponse = None
    /\ hasMore = TRUE
    /\ pageCount = 0
    /\ paginationMode = "undefined"
    /\ result = None
    /\ error = None
    /\ requests = << >>
    /\ responses = << >>
    /\ after = None
    /\ returnData = << >>
    /\ suspended = Locals

\* lines 212-218: the call is refused
CallInvalid(lo, all, lim, idx) ==
    /\ pc = "idle"
    /\ BothCursors(lo)
    /\ listOptions' = lo /\ returnAll' = all /\ limit' = lim /\ itemIndex' = idx
    /\ error' = Some(InvalidArgument(idx))
    /\ pc' = "threw"
    /\ UNCHANGED << qs, allItems, lastResponse, hasMore, pageCount,
                    paginationMode, result, requests, responses, after,
                    returnData, suspended >>

\* lines 220-246 (single page) and 220-243, 260-268 (full aggregation):
\* up to the first `await requestPage()`.  The argument itemIndex is read by
\* the refusal alone (line 216); a call that is accepted never reads it.
Call(lo, all, lim) ==
    /\ pc = "idle"
    /\ ~BothCursors(lo)
    /\ listOptions' = lo /\ returnAll' = all /\ limit' = lim
    /\ qs' = InitialQs(lo, PageSize(all = TRUE, lim))
    /\ paginationMode' = IF all /\ Truthy(lo.before) THEN "before" ELSE "undefined"
    /\ requests' = Append(requests, qs')
    /\ pc' = "awaiting"
    /\ UNCHANGED << itemIndex, allItems, lastResponse, hasMore, pageCount,
                    result, error, responses, after, returnData, suspended >>

\* lines 246-257
RespondSingle(r) ==
    /\ pc = "awaiting"
    /\ ~returnAll
    /\ UpstreamMay(r)
    /\ responses' = Append(responses, r)
    /\ result' = Some(SinglePageResult(r, limit))
    /\ pc' = "returned"
    /\ UNCHANGED << listOptions, returnAll, limit, itemIndex, qs, allItems,
                    lastResponse, hasMore, pageCount, paginationMode, error,
                    requests, after, returnData, suspended >>

\* lines 268-293, then 295-301 when the loop ends
RespondAll(r) ==
    /\ pc = "awaiting"
    /\ returnAll
    /\ UpstreamMay(r)
    /\ responses' = Append(responses, r)
    /\ lastResponse' = Some(r)
    /\ allItems' = Accumulate(allItems, ResponseData(r))
    /\ hasMore' = r.has_more
    /\ pageCount' = pageCount + 1
    /\ IF \/ StopAfterPage(hasMore', ResponseData(r), pageCount')
          \/ LastItemLacksId(ResponseData(r))
       THEN /\ result' = Some(AggregateResult(lastResponse', allItems'))
            /\ pc' = "returned"
            /\ UNCHANGED << qs, paginationMode, requests >>
       ELSE /\ qs' = NextQs(qs, paginationMode, LastItemId(ResponseData(r)))
            /\ paginationMode' = NextMode(paginationMode)
            /\ requests' = Append(requests, qs')
            /\ pc' = "awaiting"
            /\ UNCHANGED result
    /\ UNCHANGED << listOptions, returnAll, limit, itemIndex, error, after,
                    returnData, suspended >>

\* a requestList that catches the rejection and returns what it has
TransportFail_ReturnsPartial ==
    /\ pc = "awaiting"
    /\ result' = Some([object |-> Some("list"), data |-> Some(allItems),
                       has_more |-> FALSE])
    /\ pc' = "returned"
    /\ UNCHANGED << listOptions, returnAll, limit, itemIndex, qs, allItems,
                    lastResponse, hasMore, pageCount, paginationMode, error,
                    requests, responses, after, returnData, suspended >>

\* the pending httpRequest rejects; nothing catches it (lines 246, 268)
TransportFail ==
    /\ pc = "awaiting"
    /\ error' = Some(TransportError)
    /\ pc' = "threw"
    /\ UNCHANGED << listOptions, returnAll, limit, itemIndex, qs, allItems,
                    lastResponse, hasMore, pageCount, paginationMode, result,
                    requests, responses, after, returnData, suspended >>

(***************************************************************************)
(* paginatedLoadOptions, lines 82-132: the loader of dropdown options      *)
(* (getTemplates, getSegments, getTopics).  It shares no state with        *)
(* requestList; a behaviour is one invocation of either function, and the  *)
(* loader's locals qs, hasMore and pageCount use the variables of the same *)
(* name.  pc is "loading" while a request is pending, then "loaded" or     *)
(* "loadFailed".                                                           *)
(***************************************************************************)
LoaderLimit == 100
LoaderMaxPages == 10

\* Items of the loader's upstream: the loader reads `id` and `name`.
Template1 == [id |-> Some("tpl_1"), name |-> Some("Welcome")]
Template2 == [id |-> Some("tpl_2"), name |-> None]
TemplateNoId == [id |-> None, name |-> Some("Draft")]
TemplateEmptyName == [id |-> Some("tpl_3"), name |-> Some("")]
TemplateEmptyId == [id |-> Some(""), name |-> Some("Draft")]
LoaderItems == {Template1, Template2, TemplateNoId}

LoaderPages == SeqsUpTo(LoaderItems, MaxPageLen)

\* A last page with an empty name and an empty id in it.
LoaderOddResponses ==
    {[data |-> Some(<< TemplateEmptyName, TemplateEmptyId >>), has_more |-> FALSE]}

LoaderResponses ==
    [data : {Some(p) : p \in LoaderPages} \cup {None}, has_more : BOOLEAN]
        \cup LoaderOddResponses

LoaderEndResponses ==
    {[data |-> Some(<< >>), has_more |-> FALSE],
     [data |-> Some(<< Template2 >>), has_more |-> FALSE]}

LoaderRunawayResponses ==
    {[data |-> Some(<< i >>), has_more |-> TRUE] : i \in {Template1, Template2}}

LoaderUpstreamMay(r) ==
    \/ Len(responses) < MaxVaried
    \/ r \in LoaderEndResponses
    \/ /\ r \in LoaderRunawayResponses
       /\ Len(responses) > 0
       /\ AllAlike(responses)
       /\ r = responses[1]

\* lines 96-99: a fresh qs for every request
LoaderQs(cursor) ==
    [limit |-> Some(LoaderLimit),
     after |-> IF Truthy(cursor) THEN cursor ELSE None,
     before |-> None]

\* line 111: response?.data ?? []
LoaderData(r) == IF r.data = None THEN << >> ELSE r.data[1]

\* line 116
OptionName(item) ==
    IF Truthy(item.name)
    THEN item.name[1] \o " (" \o item.id[1] \o ")"
    ELSE item.id[1]

\* lines 112-121, with `break` in the place of `continue`
RECURSIVE ProjectItems_StopsAtNoId(_)
ProjectItems_StopsAtNoId(items) ==
    IF Len(items) = 0 \/ ~Truthy(Head(items).id) THEN << >>
    ELSE << [name |-> OptionName(Head(items)), value |-> Head(items).id[1]] >>
            \o ProjectItems_StopsAtNoId(Tail(items))

\* lines 112-121: the options of the items of one page
RECURSIVE ProjectItems(_)
ProjectItems(items) ==
    IF Len(items) = 0 THEN << >>
    ELSE IF ~Truthy(Head(items).id) THEN ProjectItems(Tail(items))
    ELSE << [name |-> OptionName(Head(items)), value |-> Head(items).id[1]] >>
            \o ProjectItems(Tail(items))

\* a cursor taken from the first item of the page
NextAfter_FirstItem(items) == IF Len(items) > 0 THEN items[1].id ELSE None

\* line 124
NextAfter(items) == IF Len(items) > 0 THEN items[Len(items)].id ELSE None

\* a bound that is checked one page late: pageCount > maxPages
LoaderBreaks_OffByOne(cursor, count) == ~Truthy(cursor) \/ count > LoaderMaxPages

\* a loop without the page bound: it ends only when the cursor runs out
LoaderBreaks_NoBound(cursor, count) == ~Truthy(cursor)

\* line 126
LoaderBreaks(cursor, count) == ~Truthy(cursor) \/ count >= LoaderMaxPages

\* lines 86-101: up to the first `await ... httpRequest`
LoadCall ==
    /\ pc = "idle"
    /\ returnData' = << >>
    /\ after' = None
    /\ hasMore' = TRUE
    /\ pageCount' = 0
    /\ qs' = LoaderQs(after')
    /\ requests' = Append(requests, qs')
    /\ pc' = "loading"
    /\ UNCHANGED << listOptions, returnAll, limit, itemIndex, allItems,
                    lastResponse, paginationMode, result, error, responses,
                    suspended >>

\* lines 101-129, then 131 when the loop ends
LoadRespond(r) ==
    /\ pc = "loading"
    /\ LoaderUpstreamMay(r)
    /\ responses' = Append(responses, r)
    /\ returnData' = returnData \o ProjectItems(LoaderData(r))
    /\ hasMore' = r.has_more
    /\ after' = NextAfter(LoaderData(r))
    /\ pageCount' = pageCount + 1
    /\ IF LoaderBreaks(after', pageCount') \/ ~hasMore'
       THEN /\ pc' = "loaded"
            /\ UNCHANGED << qs, requests >>
       ELSE /\ qs' = LoaderQs(after')
            /\ requests' = Append(requests, qs')
            /\ pc' = "loading"
    /\ UNCHANGED << listOptions, returnAll, limit, itemIndex, allItems,
                    lastResponse, paginationMode, result, error, suspended >>

\* the pending httpRequest rejects; nothing catches it (line 101)
LoadFail ==
    /\ pc = "loading"
    /\ error' = Some(TransportError)
    /\ pc' = "loadFailed"
    /\ UNCHANGED << listOptions, returnAll, limit, itemIndex, qs, allItems,
                    lastResponse, hasMore, pageCount, paginationMode, result,
                    requests, responses, after, returnData, suspended >>

(***************************************************************************)
(* Two invocations of requestList.  JavaScript runs one invocation at a    *)
(* time and changes over at an `await` only (lines 246 and 268), and every *)
(* state of this model is at an `await` or outside the function: the       *)
(* variables above are the invocation that runs, `suspended` is the one    *)
(* that waits, and Switch changes over.                                    *)
(***************************************************************************)
\* The pages the upstream answers two interleaved invocations with.
ConcResponses ==
    {[object |-> ListObject, data |-> Some(<< ItemA, ItemB >>), has_more |-> TRUE],
     [object |-> ListObject, data |-> Some(<< ItemB, ItemA >>), has_more |-> TRUE],
     [object |-> ListObject, data |-> Some(<< ItemB >>), has_more |-> FALSE]}

\* a qs kept outside the function: the invocation that resumes finds the qs
\* of the invocation that ran last
ResumedQs_Shared(own, running) == running

\* line 221: `const qs` is created by each invocation for itself
ResumedQs(own, running) == own

\* the invocation that runs waits at its `await`, the other one resumes
Switch ==
    /\ suspended' = Locals
    /\ pc' = suspended.pc
    /\ listOptions' = suspended.listOptions
    /\ returnAll' = suspended.returnAll
    /\ limit' = suspended.limit
    /\ itemIndex' = suspended.itemIndex
    /\ qs' = ResumedQs(suspended.qs, qs)
    /\ allItems' = suspended.allItems
    /\ lastResponse' = suspended.lastResponse
    /\ hasMore' = suspended.hasMore
    /\ pageCount' = suspended.pageCount
    /\ paginationMode' = suspended.paginationMode
    /\ result' = suspended.result
    /\ error' = suspended.error
    /\ requests' = suspended.requests
    /\ responses' = suspended.responses
    /\ UNCHANGED << after, returnData >>

Next ==
    \/ \E lo \in ListOptionsInputs, all \in BOOLEAN, lim \in LimitInputs,
          idx \in ItemIndexInputs : CallInvalid(lo, all, lim, idx)
    \/ \E lo \in ListOptionsInputs, all \in BOOLEAN, lim \in LimitInputs :
          Call(lo, all, lim)
    \/ \E r \in Responses : RespondSingle(r)
    \/ \E r \in Responses : RespondAll(r)
    \/ TransportFail
    \/ LoadCall
    \/ \E r \in LoaderResponses : LoadRespond(r)
    \/ LoadFail

Spec == Init /\ [][Next]_vars

\* The pending `await` of a transport call settles: the call responds or it
\* rejects (lines 235 and 101).
TransportSettles ==
    \/ \E r \in Responses : RespondSingle(r)
    \/ \E r \in Responses : RespondAll(r)
    \/ TransportFail
    \/ \E r \in LoaderResponses : LoadRespond(r)
    \/ LoadFail

\* The callers of the fair specification: every mode and cursor option, with
\* the limit absent and present (the two outcomes of `limit ?? 50`, line 222).
LiveLimitInputs == {None, Some(1)}

LiveNext ==
    \/ \E lo \in ListOptionsInputs, all \in BOOLEAN, lim \in LiveLimitInputs,
          idx \in ItemIndexInputs : CallInvalid(lo, all, lim, idx)
    \/ \E lo \in ListOptionsInputs, all \in BOOLEAN, lim \in LiveLimitInputs :
          Call(lo, all, lim)
    \/ \E r \in Responses : RespondSingle(r)
    \/ \E r \in Responses : RespondAll(r)
    \/ TransportFail
    \/ LoadCall
    \/ \E r \in LoaderResponses : LoadRespond(r)
    \/ LoadFail

\* Every transport call eventually responds or fails.
FairSpec == Init /\ [][LiveNext]_vars /\ WF_vars(TransportSettles)

\* Two requestList invocations whose steps interleave at the `await`s.
ConcNext ==
    \/ \E lo \in ListOptionsInputs, all \in BOOLEAN, lim \in LiveLimitInputs,
          idx \in ItemIndexInputs : CallInvalid(lo, all, lim, idx)
    \/ \E lo \in ListOptionsInputs, all \in BOOLEAN, lim \in LiveLimitInputs :
          Call(lo, all, lim)
    \/ \E r \in ConcResponses : RespondSingle(r)
    \/ \E r \in ConcResponses : RespondAll(r)
    \/ TransportFail
    \/ Switch

ConcSpec == Init /\ [][ConcNext]_vars

(***************************************************************************)
(* Properties.  Their vocabulary is defined here, apart from the           *)
(* operators of the model above.                                           *)
(***************************************************************************)
\* an optional string that is set: present and not empty
NonEmpty(o) == o # << >> /\ o # << "" >>

\* the item sequence of a page; a response without an array has none
PageItems(r) == IF r.data = << >> THEN << >> ELSE r.data[1]

\* the item sequences of the pages rs[1..n], one after the other
RECURSIVE ConcatPages(_, _)
ConcatPages(rs, n) ==
    IF n = 0 THEN << >> ELSE ConcatPages(rs, n - 1) \o PageItems(rs[n])

\* a page after which the walk may go on: has_more, non-empty, last id usable
Continues(r) ==
    /\ r.has_more
    /\ Len(PageItems(r)) > 0
    /\ NonEmpty(PageItems(r)[Len(PageItems(r))].id)

Calls == Len(requests)
Returned == pc = "returned"
InRequestList == pc \in {"awaiting", "returned", "threw"}
FullMode == InRequestList /\ returnAll
SingleMode == InRequestList /\ ~returnAll
LastPage == responses[Len(responses)]
FirstItems(page, n) == [i \in 1..n |-> page[i]]
MinOf(a, b) == IF a < b THEN a ELSE b

\* C1: a call whose options have both `after` and `before` set fails, in
\* either mode, with the NodeOperationError that carries the caller's item
\* index, and no transport call has been issued.
C1_BothCursorsRejected ==
    (pc # "idle" /\ NonEmpty(listOptions.after) /\ NonEmpty(listOptions.before)) =>
        /\ pc = "threw"
        /\ error # << >>
        /\ error[1].type = "NodeOperationError"
        /\ error[1].itemIndex = << itemIndex >>
        /\ result = << >>
        /\ Calls = 0

C1_Witness ==
    /\ pc = "threw"
    /\ NonEmpty(listOptions.after) /\ NonEmpty(listOptions.before)
    /\ returnAll
    /\ itemIndex = 1
    /\ error[1].itemIndex = << 1 >>

\* C2: in full aggregation the data returned is the concatenation of the
\* item sequences of all pages fetched, in call order and in page order, and
\* no request follows a page that reported has_more = false.
C2_AggregationIsConcatenation ==
    FullMode =>
        /\ \A k \in 1..Len(responses) : k < Calls => responses[k].has_more
        /\ Returned =>
            /\ Calls = Len(responses)
            /\ result[1].data = << ConcatPages(responses, Len(responses)) >>

C2_Witness ==
    /\ FullMode /\ Returned
    /\ Calls = 3
    /\ responses[1].has_more /\ responses[2].has_more /\ ~responses[3].has_more
    /\ PageItems(responses[1]) = << ItemB, ItemA >>
    /\ PageItems(responses[2]) = << ItemA, ItemA >>
    /\ result[1].data = << << ItemB, ItemA, ItemA, ItemA, ItemB >> >>

\* C3: every result of a full aggregation has has_more = false, whatever
\* ended the walk.
C3_AggregateHasMoreFalse ==
    (FullMode /\ Returned) => result[1].has_more = FALSE

C3_Witness ==
    /\ FullMode /\ Returned
    /\ LastPage.has_more
    /\ Calls = maxPages
    /\ result[1].has_more = FALSE

\* C4: when a full aggregation returns, the last page fetched reported
\* has_more = false.
C4_NothingRemainsUpstream ==
    (FullMode /\ Returned) => LastPage.has_more = FALSE

\* C5: a full aggregation issues at least 1 and at most 100 transport calls,
\* and exactly 100 when every page reports has_more = true, is non-empty and
\* ends with an item that has an id.
C5_CallBound ==
    FullMode =>
        /\ Calls <= 100
        /\ pc \in {"awaiting", "returned"} => Calls >= 1
        /\ (Returned /\ \A k \in 1..Len(responses) : Continues(responses[k]))
              => Calls = 100

C5_Witness ==
    /\ FullMode /\ Returned
    /\ \A k \in 1..Len(responses) : Continues(responses[k])
    /\ Calls = 100
    /\ Len(responses) = 100

\* C6: every request of a full aggregation carries at most one of `after`
\* and `before`; with a caller-supplied `before` every request carries
\* `before` and never `after`; otherwise no request carries `before` and every
\* request after the first carries `after`.
C6_DirectionFixed ==
    FullMode =>
        \A k \in 1..Calls :
            /\ ~(requests[k].after # << >> /\ requests[k].before # << >>)
            /\ IF NonEmpty(listOptions.before)
               THEN requests[k].before # << >> /\ requests[k].after = << >>
               ELSE /\ requests[k].before = << >>
                    /\ k > 1 => requests[k].after # << >>

C6_Witness ==
    /\ FullMode
    /\ NonEmpty(listOptions.before)
    /\ Calls = 3
    /\ requests[3].before = << "b" >>
    /\ requests[3].after = << >>

\* C7: an empty page ends a full aggregation, has_more = true or not: no
\* further call, and the result holds the items of the earlier pages, in
\* order, with has_more = false.
C7_EmptyPageStops ==
    (FullMode /\ Len(responses) >= 1 /\ LastPage.data = << << >> >>) =>
        /\ Returned
        /\ Calls = Len(responses)
        /\ result[1].data = << ConcatPages(responses, Len(responses) - 1) >>
        /\ result[1].has_more = FALSE

C7_Witness ==
    /\ FullMode /\ Returned
    /\ Len(responses) = 2
    /\ LastPage.data = << << >> >>
    /\ LastPage.has_more
    /\ result[1].data = << << ItemA, ItemB >> >>

\* C8: a single-page call with a positive limit L issues exactly one
\* transport call, carrying the limit and the cursor the caller supplied,
\* and returns the first min(n, L) items of a page of n items, in order.
C8_SinglePageTruncation ==
    (SingleMode /\ limit # << >> /\ limit[1] > 0) =>
        /\ pc \in {"awaiting", "returned"} =>
            /\ Calls = 1
            /\ requests[1].limit = limit
            /\ requests[1].after =
                  (IF NonEmpty(listOptions.after) THEN listOptions.after ELSE << >>)
            /\ requests[1].before =
                  (IF NonEmpty(listOptions.before) THEN listOptions.before ELSE << >>)
        /\ (Returned /\ responses[1].data # << >>) =>
              result[1].data =
                  << FirstItems(PageItems(responses[1]),
                                MinOf(Len(PageItems(responses[1])), limit[1])) >>

C8_Witness ==
    /\ SingleMode /\ Returned
    /\ limit = << 2 >>
    /\ Len(PageItems(responses[1])) > 2
    /\ result[1].data = << << ItemA, ItemB >> >>
    /\ Calls = 1

\* C9: in single-page mode the number of items returned never exceeds the
\* page size sent as the `limit` query parameter.
C9_AtMostLimitItems ==
    (SingleMode /\ Returned /\ result[1].data # << >>) =>
        Len(result[1].data[1]) <= requests[1].limit[1]

\* C10: in single-page mode the `limit` sent is options.limit when that is
\* provided and positive, and the default 50 in every other case.
C10_LimitSent ==
    (SingleMode /\ Calls >= 1) =>
        requests[1].limit =
            (IF limit # << >> /\ limit[1] > 0 THEN limit ELSE << 50 >>)

\* the id of the last item of a page, None when there is no last item
LastIdOf(r) ==
    IF Len(PageItems(r)) = 0 THEN << >> ELSE PageItems(r)[Len(PageItems(r))].id

\* the cursor field a walk pages with: `before` when the caller gave one
ActiveCursor(q) == IF NonEmpty(listOptions.before) THEN q.before ELSE q.after

TransportFailed == error # << >> /\ error[1].type = "TransportError"

\* C11: every request of a full aggregation carries limit = 100, whatever
\* limit the caller supplied, and the caller's limit never shortens the
\* aggregated result.
C11_AggregatePageSize ==
    FullMode =>
        /\ \A k \in 1..Calls : requests[k].limit = << 100 >>
        /\ Returned =>
              Len(result[1].data[1]) = Len(ConcatPages(responses, Len(responses)))

C11_Witness ==
    /\ FullMode /\ Returned
    /\ limit = << 1 >>
    /\ Calls = 2
    /\ requests[2].limit = << 100 >>
    /\ Len(result[1].data[1]) = 4

\* C12: when a transport call of a full aggregation fails, requestList ends
\* with the transport error, returns no result (the pages accumulated so far
\* are not returned), and issues no further call.
C12_AllOrNothing ==
    FullMode =>
        /\ TransportFailed =>
              /\ pc = "threw"
              /\ result = << >>
              /\ Calls = Len(responses) + 1
        /\ (pc # "awaiting" /\ Calls > Len(responses)) =>
              /\ pc = "threw"
              /\ TransportFailed
              /\ result = << >>

C12_Witness ==
    /\ FullMode
    /\ pc = "threw"
    /\ TransportFailed
    /\ Len(responses) = 2
    /\ Calls = 3
    /\ Len(allItems) = 4
    /\ result = << >>

\* C13: every result requestList returns has object = "list", an array as
\* data and a boolean has_more, in both modes, whatever the upstream sent.
C13_ResultShape ==
    pc = "returned" =>
        /\ result[1].object = << "list" >>
        /\ result[1].data # << >>
        /\ result[1].has_more \in BOOLEAN

\* C17: the requests of a full aggregation are sequential and the cursor is
\* threaded page by page: at most one request is unanswered, the first
\* request carries the caller's cursor, and request k+1 carries the id of the
\* last item of page k in the active cursor field.
C17_CursorThreading ==
    FullMode =>
        /\ Calls <= Len(responses) + 1
        /\ Calls >= 1 =>
              /\ requests[1].after =
                    (IF NonEmpty(listOptions.after) THEN listOptions.after ELSE << >>)
              /\ requests[1].before =
                    (IF NonEmpty(listOptions.before) THEN listOptions.before ELSE << >>)
        /\ \A k \in 1..(Calls - 1) :
              ActiveCursor(requests[k + 1]) = LastIdOf(responses[k])

C17_Witness ==
    /\ FullMode
    /\ Calls = 3
    /\ requests[1].after = << "x" >>
    /\ PageItems(responses[1]) = << ItemB, ItemA >>
    /\ PageItems(responses[2]) = << ItemA, ItemB >>
    /\ requests[2].after = << "a" >>
    /\ requests[3].after = << "b" >>

\* C18: a page whose last item has a missing or empty id, or a response
\* whose data is no array, ends a full aggregation without an error even when
\* it reports has_more = true: no further call, and the result holds every
\* item accumulated, that page's items included, with has_more = false.
C18_DefensiveStop ==
    (/\ FullMode
     /\ Len(responses) >= 1
     /\ \/ LastPage.data = << >>
        \/ Len(PageItems(LastPage)) > 0 /\ ~NonEmpty(LastIdOf(LastPage))) =>
        /\ Returned
        /\ error = << >>
        /\ Calls = Len(responses)
        /\ result[1].data = << ConcatPages(responses, Len(responses)) >>
        /\ result[1].has_more = FALSE

C18_Witness ==
    /\ FullMode /\ Returned
    /\ Len(responses) = 2
    /\ LastPage.has_more
    /\ PageItems(LastPage) = << ItemA, ItemNoId >>
    /\ result[1].data = << << ItemB, ItemA, ItemNoId >> >>

InLoader == pc \in {"loading", "loaded", "loadFailed"}
Loaded == pc = "loaded"

\* the option an item with an id is shown as
ExpectedOption(item) ==
    IF NonEmpty(item.name)
    THEN [name |-> item.name[1] \o " (" \o item.id[1] \o ")", value |-> item.id[1]]
    ELSE [name |-> item.id[1], value |-> item.id[1]]

\* the options of the first n of the items, those without an id left out
RECURSIVE ExpectedOptions(_, _)
ExpectedOptions(items, n) ==
    IF n = 0 THEN << >>
    ELSE ExpectedOptions(items, n - 1)
            \o (IF NonEmpty(items[n].id) THEN << ExpectedOption(items[n]) >> ELSE << >>)

AllFetched == ConcatPages(responses, Len(responses))

\* C14: the dropdown loader issues at least 1 and at most 10 transport
\* calls, and exactly 10 when every page reports has_more = true, is
\* non-empty and ends with an item that has an id.
C14_LoaderCallBound ==
    InLoader =>
        /\ Calls >= 1
        /\ Calls <= 10
        /\ (Loaded /\ \A k \in 1..Len(responses) : Continues(responses[k]))
              => Calls = 10

C14_Witness ==
    /\ Loaded
    /\ \A k \in 1..Len(responses) : Continues(responses[k])
    /\ Calls = 10
    /\ Len(responses) = 10

\* C15: the loader's output is the projection, over all fetched pages in
\* call order, of the items that have an id: "<name> (<id>)" for an item with
\* a name, the id for an item without one, nothing for an item without an id.
C15_LoaderProjection ==
    InLoader => returnData = ExpectedOptions(AllFetched, Len(AllFetched))

C15_Witness ==
    /\ Loaded
    /\ Len(responses) = 2
    /\ PageItems(responses[1]) = << TemplateNoId, Template1 >>
    /\ PageItems(responses[2]) = << TemplateNoId, Template2 >>
    /\ returnData = << [name |-> "Welcome (tpl_1)", value |-> "tpl_1"],
                       [name |-> "tpl_2", value |-> "tpl_2"] >>

\* C20: the loader pages forward only: every request carries limit = 100
\* and no `before`, the first carries no `after`, each later one carries the
\* id of the last item of the page before it, and after a page k < 10 a
\* further request is issued exactly when that page reported has_more = true,
\* was non-empty and ended with an item that has a non-empty id.
C20_LoaderForwardOnly ==
    InLoader =>
        /\ \A k \in 1..Calls :
              /\ requests[k].limit = << 100 >>
              /\ requests[k].before = << >>
        /\ requests[1].after = << >>
        /\ \A k \in 1..(Calls - 1) : requests[k + 1].after = LastIdOf(responses[k])
        /\ \A k \in 1..Len(responses) :
              k < 10 => (Calls > k <=> Continues(responses[k]))

C20_Witness ==
    /\ InLoader
    /\ Calls = 3
    /\ requests[1].after = << >>
    /\ PageItems(responses[1]) = << Template2, Template1 >>
    /\ PageItems(responses[2]) = << Template1, Template2 >>
    /\ requests[2].after = << "tpl_1" >>
    /\ requests[3].after = << "tpl_2" >>

InFlight == pc \in {"awaiting", "loading"}

\* the invocation ended by returning a result or by propagating an error
Finished ==
    \/ pc = "returned" /\ result # << >>
    \/ pc = "loaded"
    \/ pc \in {"threw", "loadFailed"} /\ TransportFailed

\* the pages the invocation may still ask for, the pending one included
PagesLeft ==
    (IF InLoader THEN 10 ELSE IF returnAll THEN 100 ELSE 1) - Len(responses)

\* C19: provided every transport call eventually responds or fails, every
\* invocation of requestList and of the dropdown loader eventually finishes,
\* by returning a result or by propagating a transport error, whatever the
\* upstream answers; while it runs, the pages it may still ask for stay
\* positive and shrink with every step.
C19_Terminates ==
    /\ InFlight ~> Finished
    /\ [][InFlight' => /\ PagesLeft' >= 1
                       /\ InFlight => PagesLeft' < PagesLeft]_vars

\* a loader stopped by its bound by an upstream that always reports more and
\* repeats the same cursor id
C19_Witness ==
    /\ pc = "loaded"
    /\ PagesLeft = 0
    /\ \A k \in 1..Len(responses) :
          /\ responses[k].has_more
          /\ LastIdOf(responses[k]) = LastIdOf(responses[1])
          /\ NonEmpty(LastIdOf(responses[k]))

\* the invocation that runs, as a record like the one that waits
Running ==
    [pc |-> pc, listOptions |-> listOptions, returnAll |-> returnAll,
     limit |-> limit, allItems |-> allItems, pageCount |-> pageCount,
     result |-> result, requests |-> requests, responses |-> responses]

\* the limit invocation c sends when it runs alone
AloneLimit(c) ==
    IF c.returnAll THEN << 100 >> ELSE IF c.limit = << >> THEN << 50 >> ELSE c.limit

\* the cursor invocation c pages with when it runs alone
AloneCursor(c, q) ==
    IF c.returnAll /\ NonEmpty(c.listOptions.before) THEN q.before ELSE q.after

\* the data invocation c returns when it runs alone against c.responses
AloneData(c) ==
    IF c.returnAll THEN ConcatPages(c.responses, Len(c.responses))
    ELSE IF c.limit # << >> /\ c.limit[1] > 0
    THEN FirstItems(PageItems(c.responses[1]),
                    MinOf(c.limit[1], Len(PageItems(c.responses[1]))))
    ELSE PageItems(c.responses[1])

\* invocation c did what it does alone against the responses it received
AsAlone(c) ==
    Len(c.requests) >= 1 =>
        /\ \A k \in 1..Len(c.requests) : c.requests[k].limit = AloneLimit(c)
        /\ c.requests[1].after =
              (IF NonEmpty(c.listOptions.after) THEN c.listOptions.after ELSE << >>)
        /\ c.requests[1].before =
              (IF NonEmpty(c.listOptions.before) THEN c.listOptions.before ELSE << >>)
        /\ \A k \in 1..(Len(c.requests) - 1) :
              AloneCursor(c, c.requests[k + 1]) = LastIdOf(c.responses[k])
        /\ c.returnAll =>
              /\ c.pageCount = Len(c.responses)
              /\ c.allItems = ConcatPages(c.responses, Len(c.responses))
        /\ c.pc = "returned" => c.result[1].data = << AloneData(c) >>

\* C16: two requestList invocations whose transport calls interleave in any
\* order do not interfere: the requests of each (limit, cursor field, cursor
\* value), its page counter, its accumulated items and its result are those
\* of the same invocation run alone against the responses it received.
C16_NoInterference == AsAlone(Running) /\ AsAlone(suspended)

\* two aggregations in flight at once, each paging with its own cursor
C16_Witness ==
    /\ pc = "awaiting" /\ suspended.pc = "awaiting"
    /\ returnAll /\ suspended.returnAll
    /\ Len(requests) = 2 /\ Len(suspended.requests) = 2
    /\ requests[2].after = << "a" >>
    /\ suspended.requests[2].after = << "b" >>
    /\ limit = << 1 >> /\ suspended.limit = << >>

====
